---- MODULE Spec2Model ----
(***************************************************************************)
(* Model of the ISO 27001 gap-assessment core of levnertech:               *)
(*   - decision_tree.py: the static clause graph decision_trees and the    *)
(*     accessors get_question, get_options and evaluate_answer;            *)
(*   - utils.py: score_to_verdict.                                         *)
(*                                                                         *)
(* Python dicts are insertion-ordered mappings; a dict is modelled as the  *)
(* sequence of its entries [key, value] in insertion order, with unique    *)
(* keys.  A Python float score is modelled by its number of hundredths     *)
(* (0.85 is 85): the thresholds and the inputs are decimal literals with   *)
(* at most two decimals, and comparing two such literals as doubles gives  *)
(* the same answer as comparing their hundredths.                          *)
(***************************************************************************)
EXTENDS Integers, Sequences, FiniteSets, TLC

(***************************************************************************)
(* Dict helpers.                                                           *)
(***************************************************************************)
Entry(k, v) == [key |-> k, value |-> v]

\* list(d.keys()): the keys in insertion order
Keys(d) == [i \in 1..Len(d) |-> d[i].key]

\* k in d
HasKey(d, k) == \E i \in 1..Len(d) : d[i].key = k

\* d[k], for a key that is present
Get(d, k) == d[CHOOSE i \in 1..Len(d) : d[i].key = k].value

\* d[k] = v
Put(d, k, v) ==
  IF HasKey(d, k)
    THEN [i \in 1..Len(d) |-> IF d[i].key = k THEN Entry(k, v) ELSE d[i]]
    ELSE Append(d, Entry(k, v))

\* del d[k], d.pop(k)
Del(d, k) == SelectSeq(d, LAMBDA e : e.key # k)

\* d.get(k, default)
GetOr(d, k, default) == IF HasKey(d, k) THEN Get(d, k) ELSE default

\* the set of the elements of a sequence
Range(s) == {s[i] : i \in 1..Len(s)}

(***************************************************************************)
(* The values of an option: a str (the next step id) or a dict             *)
(* {"verdict": v} with v a str or a list of str.  The verdict is kept as   *)
(* the sequence of its elements, is_list telling a list from a str.        *)
(***************************************************************************)
StepTarget(s) == [is_str |-> TRUE, next |-> s, verdict |-> <<>>, is_list |-> FALSE]

VerdictTarget(v) == [is_str |-> FALSE, next |-> "", verdict |-> <<v>>, is_list |-> FALSE]

ListTarget(vs) == [is_str |-> FALSE, next |-> "", verdict |-> vs, is_list |-> TRUE]

(***************************************************************************)
(* decision_trees as written in decision_tree.py (the en dashes of two     *)
(* question texts are written "-").                                        *)
(***************************************************************************)
Tree41 ==
  [title |-> "Understanding the organization and its context",
   steps |-> <<
    Entry("1",
      [question |-> "Does the organization have a defined process (formal or informal) for identifying external issues (e.g., market conditions, regulatory environment, cultural, social factors) relevant to information security?",
       options |-> <<
          Entry("Yes", StepTarget("2")),
          Entry("No", VerdictTarget("Major NC")) >>]),
    Entry("2",
      [question |-> "Does the organization have a defined process for identifying internal issues (e.g., organizational structure, strategic objectives, internal culture, resource constraints) that affect ISMS outcomes?",
       options |-> <<
          Entry("Yes", StepTarget("3")),
          Entry("No", VerdictTarget("Major NC")) >>]),
    Entry("3",
      [question |-> "Where are these issues documented or recorded? (e.g., strategic plan, context analysis document, risk register)",
       options |-> <<
          Entry("Clear Documentation", StepTarget("4")),
          Entry("Partial / Verbal Only", ListTarget(<<"Minor NC", "OFI">>)) >>]),
    Entry("4",
      [question |-> "Is there a schedule or trigger to review and update these external/internal issues?",
       options |-> <<
          Entry("Regularly Reviewed", StepTarget("5")),
          Entry("Irregular or Not Formalized", ListTarget(<<"Minor NC", "OFI">>)) >>]),
    Entry("5",
      [question |-> "Do the identified issues clearly align with the organization's purpose and influence on the ISMS objectives?",
       options |-> <<
          Entry("Yes", VerdictTarget("Complied")),
          Entry("Partially or Vague", ListTarget(<<"OFI", "Minor NC">>)) >>]) >>]

Tree42 ==
  [title |-> "Understanding the needs and expectations of interested parties",
   steps |-> <<
    Entry("1",
      [question |-> "Does the organization identify all relevant interested parties (e.g., customers, regulators, suppliers, employees) for the ISMS?",
       options |-> <<
          Entry("Yes", StepTarget("2")),
          Entry("No", VerdictTarget("Major NC")) >>]),
    Entry("2",
      [question |-> "Has the organization documented the requirements (legal, regulatory, contractual) of these interested parties?",
       options |-> <<
          Entry("Yes", StepTarget("3")),
          Entry("No", ListTarget(<<"Major NC", "Minor NC">>)) >>]),
    Entry("3",
      [question |-> "Has the organization decided which of these requirements are relevant and to be addressed within the ISMS?",
       options |-> <<
          Entry("Yes", StepTarget("4")),
          Entry("No", VerdictTarget("Major NC")) >>]),
    Entry("4",
      [question |-> "Is there documented evidence of how these decisions were made and what was included/excluded?",
       options |-> <<
          Entry("Comprehensive", StepTarget("5")),
          Entry("Partial", ListTarget(<<"Minor NC", "OFI">>)) >>]),
    Entry("5",
      [question |-> "Are relevant stakeholders (e.g., leadership, ISMS team) aware of which requirements must be met?",
       options |-> <<
          Entry("Yes", VerdictTarget("Complied")),
          Entry("No", VerdictTarget("Minor NC")) >>]) >>]

Tree43 ==
  [title |-> "Determining the scope of the information security management system",
   steps |-> <<
    Entry("1",
      [question |-> "Does the organization have a formal or informal process to define the boundaries and applicability of the ISMS?",
       options |-> <<
          Entry("Yes", StepTarget("2")),
          Entry("No", VerdictTarget("Major NC")) >>]),
    Entry("2",
      [question |-> "Did the organization factor in the external/internal issues (4.1) and interested party requirements (4.2) when defining scope?",
       options |-> <<
          Entry("Yes", StepTarget("3")),
          Entry("No", ListTarget(<<"Minor NC", "Major NC">>)) >>]),
    Entry("3",
      [question |-> "Does the scope account for activities performed by external parties (outsourcers, partners, vendors) that could affect information security?",
       options |-> <<
          Entry("Yes", StepTarget("4")),
          Entry("No", ListTarget(<<"Minor NC", "Major NC">>)) >>]),
    Entry("4",
      [question |-> "Is the scope documented (e.g., in a formal ISMS scope statement) and accessible to relevant stakeholders?",
       options |-> <<
          Entry("Yes", StepTarget("5")),
          Entry("No", VerdictTarget("Minor NC")) >>]),
    Entry("5",
      [question |-> "Does the documented scope clearly specify all locations, assets, and processes included (and excluded), as well as justifications?",
       options |-> <<
          Entry("Yes", VerdictTarget("Complied")),
          Entry("Partial", ListTarget(<<"OFI", "Minor NC">>)) >>]) >>]

Tree44 ==
  [title |-> "Information security management system",
   steps |-> <<
    Entry("1",
      [question |-> "Has the organization established and implemented an ISMS framework (policies, processes, responsibilities) in line with Clause 4.1-4.3?",
       options |-> <<
          Entry("Yes", StepTarget("2")),
          Entry("No", VerdictTarget("Major NC")) >>]),
    Entry("2",
      [question |-> "Is there a mechanism for maintaining the ISMS and updating it as changes occur (e.g., new risks, new technologies)?",
       options |-> <<
          Entry("Yes", StepTarget("3")),
          Entry("No", VerdictTarget("Minor NC")) >>]),
    Entry("3",
      [question |-> "Does the organization document how various processes interact and support information security objectives?",
       options |-> <<
          Entry("Fully", StepTarget("4")),
          Entry("Partially", ListTarget(<<"OFI", "Minor NC">>)) >>]),
    Entry("4",
      [question |-> "Are all ISO 27001 clauses (5-10) planned for or already integrated into the ISMS (not just Clause 4)?",
       options |-> <<
          Entry("Yes", StepTarget("5")),
          Entry("No", VerdictTarget("Minor NC")) >>]),
    Entry("5",
      [question |-> "Is the ISMS documentation (manual, procedures, records) readily available to those who need it?",
       options |-> <<
          Entry("Yes", VerdictTarget("Complied")),
          Entry("No", ListTarget(<<"OFI", "Minor NC">>)) >>]) >>]


\* a tree with the option l of step s pointing to tg
WithOption(tree, s, l, tg) ==
  LET st == Get(tree.steps, s)
  IN  [tree EXCEPT !.steps = Put(tree.steps, s, [st EXCEPT !.options = Put(st.options, l, tg)])]

\* clause 4.4 with the last step's "No" leading back to step "3"
DecisionTreesCycle ==
  << Entry("4.1", Tree41),
     Entry("4.2", Tree42),
     Entry("4.3", Tree43),
     Entry("4.4", WithOption(Tree44, "5", "No", StepTarget("3"))) >>

\* clause 4.1 with a verdict of three elements, one of them no verdict
DecisionTreesTriple ==
  << Entry("4.1", WithOption(Tree41, "5", "Partially or Vague",
                             ListTarget(<<"OFI", "Minor NC", "Observation">>))),
     Entry("4.2", Tree42),
     Entry("4.3", Tree43),
     Entry("4.4", Tree44) >>

\* clause 4.1 with the first step continuing to a step "7" that is not defined
DecisionTreesSkipping ==
  << Entry("4.1", WithOption(Tree41, "1", "Yes", StepTarget("7"))),
     Entry("4.2", Tree42),
     Entry("4.3", Tree43),
     Entry("4.4", Tree44) >>

\* clause 4.2 with step "4" continuing to a step "6" that is not defined
DecisionTreesDangling ==
  << Entry("4.1", Tree41),
     Entry("4.2", WithOption(Tree42, "4", "Comprehensive", StepTarget("6"))),
     Entry("4.3", Tree43),
     Entry("4.4", Tree44) >>

\* clause 4.3 with the second step continuing to step "4", past step "3"
DecisionTreesShortcut ==
  << Entry("4.1", Tree41),
     Entry("4.2", Tree42),
     Entry("4.3", WithOption(Tree43, "2", "Yes", StepTarget("4"))),
     Entry("4.4", Tree44) >>

DecisionTrees ==
  << Entry("4.1", Tree41),
     Entry("4.2", Tree42),
     Entry("4.3", Tree43),
     Entry("4.4", Tree44) >>

(***************************************************************************)
(* What a call gives back: a str (tag "str", in text), a list of str (tag  *)
(* "list", in list), a verdict dict (tag "dict", the verdict in list and   *)
(* is_list), or a raised exception (tag "KeyError" or "ValueError").       *)
(***************************************************************************)
RetStr(s) == [tag |-> "str", text |-> s, list |-> <<>>, is_list |-> FALSE]

RetList(l) == [tag |-> "list", text |-> "", list |-> l, is_list |-> FALSE]

RetDict(v, isl) == [tag |-> "dict", text |-> "", list |-> v, is_list |-> isl]

Raise(e) == [tag |-> e, text |-> "", list |-> <<>>, is_list |-> FALSE]

NoResult == [tag |-> "none", text |-> "", list |-> <<>>, is_list |-> FALSE]

VARIABLES
  decision_trees,   \* the module-level dict of decision_tree.py
  position,         \* walk: clause id -> the walk's position in that clause
  pc, call, result, \* engine: per thread, its control point, its call, its outcome
  relevance, completeness, verdict,  \* scoring: the two scores and the verdict returned
  \* st.session_state of app.py
  clause_idx, step, responses, last_verdict, open_ended_responses,
  evidence_analysis, previous_answers, form_submitted, show_ai_assistant,
  assessment_mode,
  shown,            \* what the last run of the script rendered
  last_eval,        \* the call of evaluate_open_text_compliance the last action made, if any
  analysis_list,    \* utils.py: the list of clause analyses a report is made of
  report            \* utils.py: what compile_report returned for analysis_list

session_vars ==
  <<clause_idx, step, responses, last_verdict, open_ended_responses, evidence_analysis,
    previous_answers, form_submitted, show_ai_assistant, assessment_mode>>

driver_vars == <<session_vars, shown, last_eval>>

report_vars == <<analysis_list, report>>

vars ==
  <<decision_trees, position, pc, call, result, relevance, completeness, verdict, driver_vars,
    report_vars>>

\* decision_trees[clause_id]["steps"][step]["options"], KeyError when a key is missing
HasStep(clause_id, step_id) ==
  /\ HasKey(decision_trees, clause_id)
  /\ HasKey(Get(decision_trees, clause_id).steps, step_id)

StepOf(clause_id, step_id) == Get(Get(decision_trees, clause_id).steps, step_id)

get_question(clause_id, step_id) ==
  IF ~HasKey(decision_trees, clause_id) \/ ~HasKey(Get(decision_trees, clause_id).steps, step_id)
    THEN Raise("KeyError")
    ELSE RetStr(StepOf(clause_id, step_id).question)

get_options(clause_id, step_id) ==
  IF ~HasStep(clause_id, step_id)
    THEN Raise("KeyError")
    ELSE RetList(Keys(StepOf(clause_id, step_id).options))

\* answer.strip().capitalize() on the near-matches that are fed in
Canon(answer) ==
  CASE answer \in {"yes", "YES", " Yes"} -> "Yes"
    [] answer = "No " -> "No"
    [] OTHER -> answer

\* lines 195-201 matching the answer after stripping and case folding
evaluate_opts_fuzzy(opts, answer) ==
  IF ~HasKey(opts, Canon(answer))
    THEN Raise("ValueError")
    ELSE LET target == Get(opts, Canon(answer))
         IN  IF target.is_str
               THEN RetStr(target.next)
               ELSE RetDict(target.verdict, target.is_list)

\* lines 195-201, once opts has been looked up
evaluate_opts(opts, answer) ==
  IF ~HasKey(opts, answer)
    THEN Raise("ValueError")
    ELSE LET target == Get(opts, answer)
         IN  IF target.is_str
               THEN RetStr(target.next)
               ELSE RetDict(target.verdict, target.is_list)

evaluate_answer(clause_id, step_id, answer) ==
  IF ~HasStep(clause_id, step_id)
    THEN Raise("KeyError")
    ELSE evaluate_opts(StepOf(clause_id, step_id).options, answer)

(***************************************************************************)
(* Bounds and input sets.                                                  *)
(***************************************************************************)
\* a walk is cut off after this many answers
MaxAnswers == 7

\* the number of concurrent callers of the engine
NumThreads == 2

\* scores range over the hundredths from -ScoreMargin to 100 + ScoreMargin
ScoreMargin == 5

\* texts typed by the user have at most this many characters
MaxTextLen == 2

\* at most this many clauses get an open-ended response in one session
\* structured answers submitted in one assessment
MaxSessionAnswers == 6

MaxOpenClauses == 1

\* at most this many clauses get an evidence analysis in one session
MaxEvidence == 1

ClauseIds == Range(Keys(DecisionTrees))

StepIds == UNION {Range(Keys(Get(DecisionTrees, c).steps)) : c \in ClauseIds}

Labels ==
  UNION {Range(Keys(Get(Get(DecisionTrees, c).steps, s).options)) :
           c \in ClauseIds, s \in StepIds}

\* unknown ids, and near-matches of valid labels
ClauseInputs == ClauseIds \cup {"4.5"}

StepInputs == StepIds \cup {"6"}

AnswerInputs == Labels \cup {"yes", "YES", " Yes", "No ", ""}

Threads == 1..NumThreads

Scores == (0 - ScoreMargin)..(100 + ScoreMargin)

(***************************************************************************)
(* Walks: one position per clause, starting at step "1"; an answer is any  *)
(* option get_options returns for the current step, fed to                 *)
(* evaluate_answer.                                                        *)
(***************************************************************************)
StartPosition ==
  [step |-> "1", terminal |-> FALSE, payload |-> NoResult, answers |-> 0,
   path |-> <<"1">>, error |-> "none"]

IdleCall == [op |-> "none", clause_id |-> "", step |-> "", answer |-> ""]

\* a verdict as the session stores it: a str, or a list of str
StrVerdict(v) == [list |-> <<v>>, is_list |-> FALSE]

NoShown ==
  [page |-> "none", verdict |-> StrVerdict(""), scores |-> <<>>, feedback |-> "",
   next_button |-> FALSE, counts |-> <<>>, exception |-> "none",
   recommendations |-> <<>>, checklist |-> <<>>, terminal |-> FALSE]

\* compile_report has not been called
NoReport == [done |-> FALSE, recommendations |-> <<>>, checklist |-> <<>>]

NoReply ==
  [kind |-> "none", has_verdict |-> FALSE, verdict |-> "", scores_is_dict |-> TRUE,
   scores |-> <<>>, feedback |-> ""]

NoReturn ==
  [tag |-> "none", verdict |-> "", scores_is_dict |-> TRUE, scores |-> <<>>, feedback |-> ""]

NoEval ==
  [site |-> "none", clause_id |-> "", user_response |-> [is_none |-> TRUE, text |-> <<>>],
   invoked |-> FALSE, reply |-> NoReply, ret |-> NoReturn]

\* the app is not running: no session, nothing rendered
NoDriver ==
  /\ clause_idx = 0
  /\ step = "1"
  /\ responses = <<>>
  /\ last_verdict = FALSE
  /\ open_ended_responses = <<>>
  /\ evidence_analysis = <<>>
  /\ previous_answers = <<>>
  /\ form_submitted = FALSE
  /\ show_ai_assistant = FALSE
  /\ assessment_mode = "structured"
  /\ shown = NoShown
  /\ last_eval = NoEval

\* neither the app nor a report
NoSession ==
  /\ NoDriver
  /\ analysis_list = <<>>
  /\ report = NoReport

InitWalk ==
  /\ decision_trees = DecisionTrees
  /\ position = [c \in ClauseIds |-> StartPosition]
  /\ pc = [t \in Threads |-> "idle"]
  /\ call = [t \in Threads |-> IdleCall]
  /\ result = [t \in Threads |-> NoResult]
  /\ relevance = 0
  /\ completeness = 0
  /\ verdict = "none"
  /\ NoSession

\* the position after evaluate_answer returned r for an answer at position p
Advance(p, r) ==
  IF r.tag = "str"
    THEN [p EXCEPT !.step = r.text, !.answers = @ + 1, !.path = Append(@, r.text)]
    ELSE IF r.tag = "dict"
      THEN [p EXCEPT !.terminal = TRUE, !.payload = r, !.answers = @ + 1]
      ELSE [p EXCEPT !.error = r.tag]

WalkAnswer(c) ==
  LET p == position[c]
      opts == get_options(c, p.step)
  IN  /\ ~p.terminal
      /\ p.error = "none"
      /\ p.answers < MaxAnswers
      /\ IF opts.tag = "list"
           THEN \E a \in Range(opts.list) :
                  position' = [position EXCEPT ![c] = Advance(p, evaluate_answer(c, p.step, a))]
           ELSE position' = [position EXCEPT ![c].error = opts.tag]
      /\ UNCHANGED <<decision_trees, pc, call, result, relevance, completeness, verdict, driver_vars, report_vars>>

NextWalk == \E c \in ClauseIds : WalkAnswer(c)

SpecWalk == InitWalk /\ [][NextWalk]_vars

(***************************************************************************)
(* Engine: NumThreads callers, each calling get_question, get_options or   *)
(* evaluate_answer with any inputs, interleaved.  evaluate_answer takes    *)
(* two steps: line 194 binds opts to the options dict of the shared graph  *)
(* (a reference, not a copy) or raises KeyError; lines 195-201 read it.    *)
(***************************************************************************)
InitEngine == InitWalk

\* get_question looking the clause up with setdefault, which inserts an
\* empty tree for an unknown clause
CallGetQuestionSetDefault(t) ==
  /\ pc[t] = "idle"
  /\ \E c \in ClauseInputs, s \in StepInputs :
       /\ call' = [call EXCEPT ![t] =
                     [op |-> "get_question", clause_id |-> c, step |-> s, answer |-> ""]]
       /\ result' = [result EXCEPT ![t] = get_question(c, s)]
       /\ decision_trees' =
            IF HasKey(decision_trees, c)
              THEN decision_trees
              ELSE Put(decision_trees, c, [title |-> "", steps |-> <<>>])
  /\ pc' = [pc EXCEPT ![t] = "done"]
  /\ UNCHANGED <<position, relevance, completeness, verdict, driver_vars, report_vars>>

CallGetQuestion(t) ==
  /\ pc[t] = "idle"
  /\ \E c \in ClauseInputs, s \in StepInputs :
       /\ call' = [call EXCEPT ![t] =
                     [op |-> "get_question", clause_id |-> c, step |-> s, answer |-> ""]]
       /\ result' = [result EXCEPT ![t] = get_question(c, s)]
  /\ pc' = [pc EXCEPT ![t] = "done"]
  /\ UNCHANGED <<decision_trees, position, relevance, completeness, verdict, driver_vars, report_vars>>

CallGetOptions(t) ==
  /\ pc[t] = "idle"
  /\ \E c \in ClauseInputs, s \in StepInputs :
       /\ call' = [call EXCEPT ![t] =
                     [op |-> "get_options", clause_id |-> c, step |-> s, answer |-> ""]]
       /\ result' = [result EXCEPT ![t] = get_options(c, s)]
  /\ pc' = [pc EXCEPT ![t] = "done"]
  /\ UNCHANGED <<decision_trees, position, relevance, completeness, verdict, driver_vars, report_vars>>

\* line 194 with .get(..., {}) defaults: a missing clause or step gives
\* an empty opts instead of KeyError
CallEvaluateAnswerDefaulting(t) ==
  /\ pc[t] = "idle"
  /\ \E c \in ClauseInputs, s \in StepInputs, a \in AnswerInputs :
       /\ call' = [call EXCEPT ![t] =
                     [op |-> "evaluate_answer", clause_id |-> c, step |-> s, answer |-> a]]
       /\ IF HasStep(c, s)
            THEN /\ pc' = [pc EXCEPT ![t] = "opts"]
                 /\ UNCHANGED result
            ELSE /\ pc' = [pc EXCEPT ![t] = "done"]
                 /\ result' = [result EXCEPT ![t] = evaluate_opts(<<>>, a)]
  /\ UNCHANGED <<decision_trees, position, relevance, completeness, verdict, driver_vars, report_vars>>

\* line 194
CallEvaluateAnswer(t) ==
  /\ pc[t] = "idle"
  /\ \E c \in ClauseInputs, s \in StepInputs, a \in AnswerInputs :
       /\ call' = [call EXCEPT ![t] =
                     [op |-> "evaluate_answer", clause_id |-> c, step |-> s, answer |-> a]]
       /\ IF HasStep(c, s)
            THEN /\ pc' = [pc EXCEPT ![t] = "opts"]
                 /\ UNCHANGED result
            ELSE /\ pc' = [pc EXCEPT ![t] = "done"]
                 /\ result' = [result EXCEPT ![t] = Raise("KeyError")]
  /\ UNCHANGED <<decision_trees, position, relevance, completeness, verdict, driver_vars, report_vars>>

\* lines 195-201 taking the target with opts.pop(answer, None): a missing
\* answer raises ValueError, a present one is removed from the shared dict
EvaluateReturnPop(t) ==
  LET c == call[t].clause_id
      s == call[t].step
      a == call[t].answer
      tree == Get(decision_trees, c)
      st == Get(tree.steps, s)
  IN  /\ pc[t] = "opts"
      /\ result' = [result EXCEPT ![t] = evaluate_opts(st.options, a)]
      /\ decision_trees' =
           Put(decision_trees, c,
               [tree EXCEPT !.steps = Put(tree.steps, s, [st EXCEPT !.options = Del(st.options, a)])])
      /\ pc' = [pc EXCEPT ![t] = "done"]
      /\ UNCHANGED <<position, call, relevance, completeness, verdict, driver_vars, report_vars>>

\* lines 195-201
EvaluateReturn(t) ==
  /\ pc[t] = "opts"
  /\ result' = [result EXCEPT ![t] =
                  evaluate_opts(StepOf(call[t].clause_id, call[t].step).options,
                                call[t].answer)]
  /\ pc' = [pc EXCEPT ![t] = "done"]
  /\ UNCHANGED <<decision_trees, position, call, relevance, completeness, verdict, driver_vars, report_vars>>

\* the caller takes the outcome and is free to call again
Return(t) ==
  /\ pc[t] = "done"
  /\ pc' = [pc EXCEPT ![t] = "idle"]
  /\ call' = [call EXCEPT ![t] = IdleCall]
  /\ result' = [result EXCEPT ![t] = NoResult]
  /\ UNCHANGED <<decision_trees, position, relevance, completeness, verdict, driver_vars, report_vars>>

NextEngine ==
  \E t \in Threads :
    \/ CallGetQuestion(t)
    \/ CallGetOptions(t)
    \/ CallEvaluateAnswer(t)
    \/ EvaluateReturn(t)
    \/ Return(t)

SpecEngine == InitEngine /\ [][NextEngine]_vars

(***************************************************************************)
(* Scoring: score_to_verdict of utils.py applied to a pair of scores, in   *)
(* hundredths.                                                             *)
(***************************************************************************)
COMPLIED_THRESHOLD == 85

MINOR_NC_THRESHOLD == 70

MAJOR_NC_THRESHOLD == 60

\* the Major NC cutoff taken inclusively
score_to_verdict_inclusive_major(r, c) ==
  IF r >= COMPLIED_THRESHOLD /\ c >= COMPLIED_THRESHOLD
    THEN "Complied"
    ELSE IF r <= MAJOR_NC_THRESHOLD \/ c <= MAJOR_NC_THRESHOLD
      THEN "Major NC"
      ELSE IF r >= MINOR_NC_THRESHOLD /\ c >= MINOR_NC_THRESHOLD
        THEN "Minor NC"
        ELSE "Opportunity for Improvement"

\* the Minor NC threshold taken exclusively
score_to_verdict_exclusive_minor(r, c) ==
  IF r >= COMPLIED_THRESHOLD /\ c >= COMPLIED_THRESHOLD
    THEN "Complied"
    ELSE IF r < MAJOR_NC_THRESHOLD \/ c < MAJOR_NC_THRESHOLD
      THEN "Major NC"
      ELSE IF r > MINOR_NC_THRESHOLD /\ c > MINOR_NC_THRESHOLD
        THEN "Minor NC"
        ELSE "Opportunity for Improvement"

\* scores outside [0, 1] rejected
score_to_verdict_validating(r, c) ==
  IF r < 0 \/ r > 100 \/ c < 0 \/ c > 100
    THEN "ValueError"
    ELSE IF r >= COMPLIED_THRESHOLD /\ c >= COMPLIED_THRESHOLD
      THEN "Complied"
      ELSE IF r < MAJOR_NC_THRESHOLD \/ c < MAJOR_NC_THRESHOLD
        THEN "Major NC"
        ELSE IF r >= MINOR_NC_THRESHOLD /\ c >= MINOR_NC_THRESHOLD
          THEN "Minor NC"
          ELSE "Opportunity for Improvement"

\* the Complied test on one score only
score_to_verdict_one_complied(r, c) ==
  IF r >= COMPLIED_THRESHOLD
    THEN "Complied"
    ELSE IF r < MAJOR_NC_THRESHOLD \/ c < MAJOR_NC_THRESHOLD
      THEN "Major NC"
      ELSE IF r >= MINOR_NC_THRESHOLD /\ c >= MINOR_NC_THRESHOLD
        THEN "Minor NC"
        ELSE "Opportunity for Improvement"

score_to_verdict(r, c) ==
  IF r >= COMPLIED_THRESHOLD /\ c >= COMPLIED_THRESHOLD
    THEN "Complied"
    ELSE IF r < MAJOR_NC_THRESHOLD \/ c < MAJOR_NC_THRESHOLD
      THEN "Major NC"
      ELSE IF r >= MINOR_NC_THRESHOLD /\ c >= MINOR_NC_THRESHOLD
        THEN "Minor NC"
        ELSE "Opportunity for Improvement"

InitScore ==
  /\ decision_trees = DecisionTrees
  /\ position = [c \in ClauseIds |-> StartPosition]
  /\ pc = [t \in Threads |-> "idle"]
  /\ call = [t \in Threads |-> IdleCall]
  /\ result = [t \in Threads |-> NoResult]
  /\ relevance \in Scores
  /\ completeness \in Scores
  /\ verdict = "none"
  /\ NoSession

ScoreToVerdict ==
  /\ verdict = "none"
  /\ verdict' = score_to_verdict(relevance, completeness)
  /\ UNCHANGED <<decision_trees, position, pc, call, result, relevance, completeness, driver_vars, report_vars>>

NextScore == ScoreToVerdict

SpecScore == InitScore /\ [][NextScore]_vars

(***************************************************************************)
(* Reporting: generate_recommendations, generate_checklist and             *)
(* compile_report of utils.py.  An analysis is the pair of a clause and a  *)
(* verdict, the verdict being a string or a list as the driver records it. *)
(***************************************************************************)
\* a report is made of at most this many analyses
MaxAnalyses == 3

Analysis(clause, v) == [clause |-> clause, verdict |-> v]

\* v == "Complied" and the like: a list equals no string
IsStr(v, text) == ~v.is_list /\ v.list = <<text>>

\* lines 38-55
generate_recommendations(analysis) ==
  LET v == analysis.verdict
  IN  IF IsStr(v, "Complied")
        THEN <<"Pertahankan praktik yang telah berjalan dengan baik.">>
        ELSE IF IsStr(v, "Minor NC")
          THEN <<"Perbaiki detail yang kurang untuk memenuhi standar penuh.",
                 "Tinjau kembali dokumentasi dan lengkapi bagian yang belum memadai.">>
          ELSE IF IsStr(v, "Opportunity for Improvement")
            THEN <<"Pertimbangkan untuk meningkatkan proses meski sudah memenuhi syarat minimal.",
                   "Tuliskan prosedur lebih rinci untuk meningkatkan konsistensi implementasi.">>
            ELSE <<"Segera implementasikan proses sesuai klausul yang belum ada.",
                   "Susun dan dokumentasikan prosedur dasar untuk kepatuhan awal.">>

\* line 67: the f-string, kept as its two interpolated values
ChecklistLine(clause, v) == [fixed |-> FALSE, clause |-> clause, verdict |-> v]

\* line 69
AllMet == [fixed |-> TRUE, clause |-> "", verdict |-> [list |-> <<"">>, is_list |-> FALSE]]

\* lines 62-67: the checklist after the first n analyses
RECURSIVE checklist_loop(_, _)
checklist_loop(list, n) ==
  IF n = 0
    THEN <<>>
    ELSE LET checklist == checklist_loop(list, n - 1)
         IN  IF ~IsStr(list[n].verdict, "Complied")
               THEN Append(checklist, ChecklistLine(list[n].clause, list[n].verdict))
               ELSE checklist

\* the checklist left empty when nothing is outstanding
generate_checklist_empty(list) == checklist_loop(list, Len(list))

\* lines 58-70
generate_checklist(list) ==
  LET checklist == checklist_loop(list, Len(list))
  IN  IF checklist = <<>> THEN <<AllMet>> ELSE checklist

\* lines 83-85: all_recs after the first n analyses
RECURSIVE extend_loop(_, _)
extend_loop(list, n) ==
  IF n = 0 THEN <<>> ELSE extend_loop(list, n - 1) \o generate_recommendations(list[n])

\* fromkeys keeping the last copy of an element
RECURSIVE fromkeys_last(_, _)
fromkeys_last(l, n) ==
  IF n = 0
    THEN <<>>
    ELSE IF \E i \in n + 1..Len(l) : l[i] = l[n]
      THEN fromkeys_last(l, n - 1)
      ELSE Append(fromkeys_last(l, n - 1), l[n])

\* list(dict.fromkeys(l)) on the first n elements of l: the later copies of
\* an element dropped
RECURSIVE fromkeys(_, _)
fromkeys(l, n) ==
  IF n = 0
    THEN <<>>
    ELSE IF \E i \in 1..n - 1 : l[i] = l[n]
      THEN fromkeys(l, n - 1)
      ELSE Append(fromkeys(l, n - 1), l[n])

\* lines 73-93
compile_report(list) ==
  LET all_recs == extend_loop(list, Len(list))
  IN  [done |-> TRUE,
       recommendations |-> fromkeys(all_recs, Len(all_recs)),
       checklist |-> generate_checklist(list)]

\* the verdicts of the analyses: the four verdicts and two of the lists
AnalysisVerdicts ==
  {[list |-> <<v>>, is_list |-> FALSE] :
     v \in {"Complied", "Minor NC", "Opportunity for Improvement", "Major NC"}}
    \cup {[list |-> <<"Minor NC", "OFI">>, is_list |-> TRUE],
          [list |-> <<"OFI", "Minor NC">>, is_list |-> TRUE]}

Analyses == {Analysis(c, v) : c \in {"4.1", "4.2"}, v \in AnalysisVerdicts}

InitReport ==
  /\ decision_trees = DecisionTrees
  /\ position = [c \in ClauseIds |-> StartPosition]
  /\ pc = [t \in Threads |-> "idle"]
  /\ call = [t \in Threads |-> IdleCall]
  /\ result = [t \in Threads |-> NoResult]
  /\ relevance = 0
  /\ completeness = 0
  /\ verdict = "none"
  /\ NoDriver
  /\ analysis_list \in UNION {[1..n -> Analyses] : n \in 0..MaxAnalyses}
  /\ report = NoReport

CompileReport ==
  /\ ~report.done
  /\ report' = compile_report(analysis_list)
  /\ UNCHANGED <<decision_trees, position, pc, call, result, relevance, completeness, verdict,
                 driver_vars, analysis_list>>

NextReport == CompileReport

SpecReport == InitReport /\ [][NextReport]_vars


(***************************************************************************)
(* Open-ended evaluation: evaluate_open_text_compliance of                 *)
(* llm_assessment.py.  A str the code looks into (strip) is the sequence   *)
(* of its characters.  The external evaluator's answer is an input: the    *)
(* API call raises ("api_error"), or its content is empty ("empty"), is    *)
(* not JSON ("not_json"), is JSON but no object ("not_object"), or is an   *)
(* object with or without a "verdict", with "scores" a dict (an absent     *)
(* "scores" is the empty dict) or null, and a "feedback".  clause_id,      *)
(* document_context and the truncation to 4000 characters only shape the   *)
(* prompt sent to the evaluator.                                           *)
(***************************************************************************)
Chars == {" ", "a"}

Texts == UNION {[1..n -> Chars] : n \in 0..MaxTextLen}

RECURSIVE LStrip(_)
LStrip(t) == IF t # <<>> /\ Head(t) = " " THEN LStrip(Tail(t)) ELSE t

RECURSIVE RStrip(_)
RStrip(t) == IF t # <<>> /\ t[Len(t)] = " " THEN RStrip(SubSeq(t, 1, Len(t) - 1)) ELSE t

\* str.strip()
Strip(t) == RStrip(LStrip(t))

Str(t) == [is_none |-> FALSE, text |-> t]

None == [is_none |-> TRUE, text |-> <<>>]

UserResponses == {None} \cup {Str(t) : t \in Texts}

ScoreDicts ==
  { <<>>,
    <<Entry("relevance", 65), Entry("completeness", 65)>>,
    <<Entry("relevance", 90)>> }

ObjectReply(hv, v, sd, sc) ==
  [kind |-> "object", has_verdict |-> hv, verdict |-> v, scores_is_dict |-> sd,
   scores |-> sc, feedback |-> "feedback"]

FailedReply(k) ==
  [kind |-> k, has_verdict |-> FALSE, verdict |-> "", scores_is_dict |-> TRUE,
   scores |-> <<>>, feedback |-> ""]

\* what the evaluator answers: no answer at all (the API call raises), empty
\* content, text that is no JSON, JSON that is no object, or an object with
\* or without a verdict and with or without scores
Replies ==
  {FailedReply(k) : k \in {"api_error", "empty", "not_json", "not_object"}}
    \cup {ObjectReply(TRUE, v, TRUE, <<Entry("relevance", 65), Entry("completeness", 65)>>) :
            v \in {"Complied", "Partially Compliant"}}
    \cup {ObjectReply(TRUE, "", TRUE, sc) : sc \in ScoreDicts}
    \cup {ObjectReply(FALSE, "", TRUE, <<Entry("relevance", 65), Entry("completeness", 65)>>),
          ObjectReply(TRUE, "Complied", FALSE, <<>>),
          ObjectReply(FALSE, "", FALSE, <<>>)}

Returned(v, sd, sc, f) ==
  [tag |-> "ok", verdict |-> v, scores_is_dict |-> sd, scores |-> sc, feedback |-> f]

RuntimeError ==
  [tag |-> "RuntimeError", verdict |-> "", scores_is_dict |-> TRUE, scores |-> <<>>,
   feedback |-> ""]

\* line 95: not user_response or not user_response.strip()
\* the verdict always computed from the scores
evaluate_reply_scores_first(reply) ==
  IF reply.kind # "object"
    THEN RuntimeError
    ELSE IF ~reply.scores_is_dict
      THEN RuntimeError
      ELSE Returned(score_to_verdict(GetOr(reply.scores, "relevance", 0),
                                     GetOr(reply.scores, "completeness", 0)),
                    TRUE, reply.scores, reply.feedback)

\* a reply that is no JSON object read as an object without fields
evaluate_reply_lenient(reply) ==
  IF reply.kind # "object"
    THEN Returned(score_to_verdict(0, 0), TRUE, <<>>, "")
    ELSE IF reply.has_verdict /\ reply.verdict # ""
      THEN Returned(reply.verdict, reply.scores_is_dict, reply.scores, reply.feedback)
      ELSE IF ~reply.scores_is_dict
        THEN RuntimeError
        ELSE Returned(score_to_verdict(GetOr(reply.scores, "relevance", 0),
                                       GetOr(reply.scores, "completeness", 0)),
                      TRUE, reply.scores, reply.feedback)

\* the test without the strip
IsBlankUnstripped(user_response) == user_response.is_none \/ user_response.text = <<>>

IsBlank(user_response) == user_response.is_none \/ Strip(user_response.text) = <<>>

\* lines 128-147, with the evaluator's reply
evaluate_reply(reply) ==
  IF reply.kind # "object"
    THEN RuntimeError
    ELSE IF reply.has_verdict /\ reply.verdict # ""
      THEN Returned(reply.verdict, reply.scores_is_dict, reply.scores, reply.feedback)
      ELSE IF ~reply.scores_is_dict
        THEN RuntimeError
        ELSE Returned(score_to_verdict(GetOr(reply.scores, "relevance", 0),
                                       GetOr(reply.scores, "completeness", 0)),
                      TRUE, reply.scores, reply.feedback)

\* the call at `site` for clause cid; the evaluator is invoked, and answers
\* reply, only for a response that is not blank
evaluate_open_text_compliance(site, cid, user_response, reply) ==
  IF IsBlank(user_response)
    THEN [site |-> site, clause_id |-> cid, user_response |-> user_response,
          invoked |-> FALSE, reply |-> NoReply,
          ret |-> Returned("Major NC", TRUE,
                           <<Entry("relevance", 0), Entry("completeness", 0)>>,
                           "No response provided")]
    ELSE [site |-> site, clause_id |-> cid, user_response |-> user_response,
          invoked |-> TRUE, reply |-> reply, ret |-> evaluate_reply(reply)]

InitOpenText == InitWalk

EvaluateOpenText ==
  /\ \E cid \in ClauseIds, u \in UserResponses, r \in Replies :
       last_eval' = evaluate_open_text_compliance("call", cid, u, r)
  /\ UNCHANGED <<decision_trees, position, pc, call, result, relevance, completeness,
                 verdict, session_vars, shown, report_vars>>

NextOpenText == EvaluateOpenText

SpecOpenText == InitOpenText /\ [][NextOpenText]_vars

(***************************************************************************)
(* Driver: the Streamlit script app.py.  Every user interaction runs its   *)
(* handler and then the script from the top; an action is the handler      *)
(* followed by that run, up to the end of the script or to the exception   *)
(* that aborts it.  shown records what the run rendered.                   *)
(***************************************************************************)
clause_ids == Keys(decision_trees)

total_clauses == Len(clause_ids)

\* line 141: the keys of the counters, in the order of the literal
counted_verdicts == <<"Complied", "Minor NC", "Opportunity for Improvement", "Major NC">>

\* lines 141-146: the counters after the verdicts resp[1..n]; the loop adds
\* one to the counter whose key is the primary of a verdict, if there is one
verdict_counts(resp, n) ==
  [k \in 1..Len(counted_verdicts) |->
     Entry(counted_verdicts[k],
           Cardinality({i \in 1..n : resp[i].value.list[1] = counted_verdicts[k]}))]

Page(p, v, sc, f, nb, cnt, exc) ==
  [page |-> p, verdict |-> v, scores |-> sc, feedback |-> f, next_button |-> nb,
   counts |-> cnt, exception |-> exc, recommendations |-> <<>>, checklist |-> <<>>,
   terminal |-> FALSE]

\* lines 230-231 and 237-240: the analyses made of the recorded verdicts
analyses_of(resp) == [i \in 1..Len(resp) |-> Analysis(resp[i].key, resp[i].value)]

\* lines 229-234: the quick recommendations of the results page
quick_recommendations(resp) ==
  LET all_recs == extend_loop(analyses_of(resp), Len(resp))
  IN  fromkeys(all_recs, Len(all_recs))

\* true only when every option leads to a verdict
is_terminal_step_all(cid, s) ==
  \A i \in 1..Len(StepOf(cid, s).options) : ~StepOf(cid, s).options[i].value.is_str

\* lines 56-59
is_terminal_step(cid, s) ==
  \E i \in 1..Len(StepOf(cid, s).options) : ~StepOf(cid, s).options[i].value.is_str

\* the script showing the verdict of the later evaluation
RenderLatestVerdict(idx, stp, resp, lv, oer, evd, mode, reply) ==
  IF idx >= total_clauses
    THEN [shown |-> [Page("results", StrVerdict(""), <<>>, "", FALSE,
                          verdict_counts(resp, Len(resp)), "none")
                       EXCEPT !.recommendations = quick_recommendations(resp),
                              !.checklist = generate_checklist(analyses_of(resp))],
          called |-> FALSE, eval |-> NoEval]
    ELSE LET cid == clause_ids[idx + 1]
         IN  IF mode = "structured"
               THEN IF get_question(cid, stp).tag = "KeyError"
                      THEN [shown |-> Page("aborted", StrVerdict(""), <<>>, "", FALSE, <<>>,
                                           "KeyError"),
                            called |-> FALSE, eval |-> NoEval]
                      \* line 291: terminal is computed and not used
                      ELSE IF ~lv
                        THEN [shown |-> [Page("question", StrVerdict(""), <<>>, "", FALSE,
                                              <<>>, "none")
                                           EXCEPT !.terminal = is_terminal_step(cid, stp)],
                              called |-> FALSE, eval |-> NoEval]
                        ELSE IF ~HasKey(resp, cid)
                          THEN [shown |-> Page("aborted", StrVerdict(""), <<>>, "", FALSE,
                                               <<>>, "KeyError"),
                                called |-> FALSE, eval |-> NoEval]
                          ELSE [shown |-> [Page("verdict",
                                                StrVerdict(Get(resp, cid).list[1]),
                                                <<>>, "", TRUE, <<>>, "none")
                                             EXCEPT !.terminal = is_terminal_step(cid, stp)],
                                called |-> FALSE, eval |-> NoEval]
               ELSE IF ~lv
                 THEN [shown |-> Page("open_form", StrVerdict(""), <<>>, "", FALSE, <<>>,
                                      "none"),
                       called |-> FALSE, eval |-> NoEval]
                 ELSE IF ~HasKey(resp, cid)
                   THEN [shown |-> Page("aborted", StrVerdict(""), <<>>, "", FALSE, <<>>,
                                        "KeyError"),
                         called |-> FALSE, eval |-> NoEval]
                   ELSE LET ev == evaluate_open_text_compliance(
                                    "display", cid, GetOr(oer, cid, Str(<<>>)), reply)
                        IN  IF ev.ret.tag = "RuntimeError"
                              THEN [shown |-> Page("aborted", StrVerdict(""), <<>>, "",
                                                   FALSE, <<>>, "RuntimeError"),
                                    called |-> TRUE, eval |-> ev]
                              ELSE [shown |-> Page("verdict", StrVerdict(ev.ret.verdict),
                                                   ev.ret.scores, ev.ret.feedback, TRUE,
                                                   <<>>, "none"),
                                    called |-> TRUE, eval |-> ev]

\* the script from line 133 on, for the session state given; reply is what
\* the evaluator answers if this run calls it.  Gives what is rendered, and
\* the call of evaluate_open_text_compliance the run made, if any.
Render(idx, stp, resp, lv, oer, evd, mode, reply) ==
  IF idx >= total_clauses
    THEN [shown |-> [Page("results", StrVerdict(""), <<>>, "", FALSE,
                          verdict_counts(resp, Len(resp)), "none")
                       EXCEPT !.recommendations = quick_recommendations(resp),
                              !.checklist = generate_checklist(analyses_of(resp))],
          called |-> FALSE, eval |-> NoEval]
    ELSE LET cid == clause_ids[idx + 1]
         IN  IF mode = "structured"
               THEN IF get_question(cid, stp).tag = "KeyError"
                      THEN [shown |-> Page("aborted", StrVerdict(""), <<>>, "", FALSE, <<>>,
                                           "KeyError"),
                            called |-> FALSE, eval |-> NoEval]
                      \* line 291: terminal is computed and not used
                      ELSE IF ~lv
                        THEN [shown |-> [Page("question", StrVerdict(""), <<>>, "", FALSE,
                                              <<>>, "none")
                                           EXCEPT !.terminal = is_terminal_step(cid, stp)],
                              called |-> FALSE, eval |-> NoEval]
                        ELSE IF ~HasKey(resp, cid)
                          THEN [shown |-> Page("aborted", StrVerdict(""), <<>>, "", FALSE,
                                               <<>>, "KeyError"),
                                called |-> FALSE, eval |-> NoEval]
                          ELSE [shown |-> [Page("verdict",
                                                StrVerdict(Get(resp, cid).list[1]),
                                                <<>>, "", TRUE, <<>>, "none")
                                             EXCEPT !.terminal = is_terminal_step(cid, stp)],
                                called |-> FALSE, eval |-> NoEval]
               ELSE IF ~lv
                 THEN [shown |-> Page("open_form", StrVerdict(""), <<>>, "", FALSE, <<>>,
                                      "none"),
                       called |-> FALSE, eval |-> NoEval]
                 ELSE IF ~HasKey(resp, cid)
                   THEN [shown |-> Page("aborted", StrVerdict(""), <<>>, "", FALSE, <<>>,
                                        "KeyError"),
                         called |-> FALSE, eval |-> NoEval]
                   ELSE LET ev == evaluate_open_text_compliance(
                                    "display", cid, GetOr(oer, cid, Str(<<>>)), reply)
                        IN  IF ev.ret.tag = "RuntimeError"
                              THEN [shown |-> Page("aborted", StrVerdict(""), <<>>, "",
                                                   FALSE, <<>>, "RuntimeError"),
                                    called |-> TRUE, eval |-> ev]
                              ELSE [shown |-> Page("verdict", Get(resp, cid),
                                                   ev.ret.scores, ev.ret.feedback, TRUE,
                                                   <<>>, "none"),
                                    called |-> TRUE, eval |-> ev]

\* what the evaluator answers in a session: a failure, a verdict that
\* disagrees with the scores, a verdict outside the closed set, no verdict
SessionReplies ==
  { FailedReply("api_error"),
    ObjectReply(TRUE, "Complied", TRUE,
                <<Entry("relevance", 65), Entry("completeness", 65)>>),
    ObjectReply(TRUE, "Partially Compliant", TRUE,
                <<Entry("relevance", 65), Entry("completeness", 65)>>),
    ObjectReply(FALSE, "", TRUE, <<Entry("relevance", 65), Entry("completeness", 65)>>) }

\* the run of the script that ends an action, on the new session state; the
\* evaluator answers anything if the run invokes it
Rerun ==
  \E quiet \in {Render(clause_idx', step', responses', last_verdict', open_ended_responses',
                      evidence_analysis', assessment_mode', NoReply)} :
      IF quiet.called /\ quiet.eval.invoked
        THEN \E reply \in SessionReplies :
               LET r == Render(clause_idx', step', responses', last_verdict',
                               open_ended_responses', evidence_analysis',
                               assessment_mode', reply)
               IN  shown' = r.shown /\ last_eval' = r.eval
        ELSE /\ shown' = quiet.shown
             /\ last_eval' = quiet.eval

library_vars ==
  <<decision_trees, position, pc, call, result, relevance, completeness, verdict>>

\* lines 12-26 and the first run of the script
Init ==
  /\ decision_trees = DecisionTrees
  /\ position = [c \in ClauseIds |-> StartPosition]
  /\ pc = [t \in Threads |-> "idle"]
  /\ call = [t \in Threads |-> IdleCall]
  /\ result = [t \in Threads |-> NoResult]
  /\ relevance = 0
  /\ completeness = 0
  /\ verdict = "none"
  /\ clause_idx = 0
  /\ step = "1"
  /\ responses = <<>>
  /\ last_verdict = FALSE
  /\ open_ended_responses = <<>>
  /\ evidence_analysis = <<>>
  /\ previous_answers = <<>>
  /\ form_submitted = FALSE
  /\ show_ai_assistant = FALSE
  /\ assessment_mode = "structured"
  /\ shown = [Page("question", StrVerdict(""), <<>>, "", FALSE, <<>>, "none")
                EXCEPT !.terminal = is_terminal_step("4.1", "1")]
  /\ analysis_list = <<>>
  /\ report = NoReport
  /\ last_eval = NoEval

\* Submit of the structured form recording the verdict without last_verdict
SubmitStructuredNoFlag ==
  /\ shown.page = "question"
  /\ Len(previous_answers) < MaxSessionAnswers
  /\ LET cid == clause_ids[clause_idx + 1]
         question == get_question(cid, step).text
     IN  \E choice \in Range(get_options(cid, step).list) :
           LET res == evaluate_answer(cid, step, choice)
           IN  /\ previous_answers' = Put(previous_answers, question, choice)
               /\ IF res.tag = "dict"
                    THEN /\ responses' =
                              Put(responses, cid, [list |-> res.list, is_list |-> res.is_list])
                         /\ UNCHANGED <<step, last_verdict>>
                    ELSE /\ step' = res.text
                         /\ UNCHANGED <<responses, last_verdict>>
  /\ form_submitted' = FALSE
  /\ UNCHANGED <<clause_idx, open_ended_responses, evidence_analysis, show_ai_assistant,
                 assessment_mode>>
  /\ Rerun
  /\ UNCHANGED <<library_vars, report_vars>>

\* lines 300-314: Submit of the structured form
StructuredSubmit ==
  /\ shown.page = "question"
  /\ LET cid == clause_ids[clause_idx + 1]
         question == get_question(cid, step).text
     IN  \E choice \in Range(get_options(cid, step).list) :
           LET res == evaluate_answer(cid, step, choice)
           IN  /\ previous_answers' = Put(previous_answers, question, choice)
               /\ IF res.tag = "dict"
                    THEN /\ responses' =
                              Put(responses, cid, [list |-> res.list, is_list |-> res.is_list])
                         /\ last_verdict' = TRUE
                         /\ UNCHANGED step
                    ELSE /\ step' = res.text
                         /\ UNCHANGED <<responses, last_verdict>>
  /\ form_submitted' = FALSE
  /\ UNCHANGED <<clause_idx, open_ended_responses, evidence_analysis, show_ai_assistant,
                 assessment_mode>>
  /\ Rerun
  /\ UNCHANGED <<library_vars, report_vars>>

\* what the text area of the open-ended form holds at a submit
FormTexts == {t \in Texts : Len(t) = 1}

\* Submit of the structured form, while the session has answers left
SubmitStructured ==
  /\ Len(previous_answers) < MaxSessionAnswers
  /\ StructuredSubmit

\* the open-ended form offered also while a verdict is displayed
SubmitOpenEndedUnguarded ==
  /\ clause_idx < total_clauses
  /\ assessment_mode = "open_ended"
  /\ LET cid == clause_ids[clause_idx + 1]
     IN  /\ HasKey(open_ended_responses, cid) \/ Len(open_ended_responses) < MaxOpenClauses
         /\ \E open_response \in FormTexts, reply \in SessionReplies :
              LET ev == evaluate_open_text_compliance("submit", cid, Str(open_response), reply)
              IN  /\ open_ended_responses' = Put(open_ended_responses, cid, Str(open_response))
                  /\ form_submitted' = FALSE
                  /\ UNCHANGED <<clause_idx, step, evidence_analysis, previous_answers,
                                 show_ai_assistant, assessment_mode>>
                  /\ IF ev.ret.tag = "RuntimeError"
                       THEN /\ UNCHANGED <<responses, last_verdict>>
                            /\ shown' = Page("open_form", StrVerdict(""), <<>>, "", FALSE,
                                             <<>>, "RuntimeError")
                            /\ last_eval' = ev
                       ELSE /\ responses' = Put(responses, cid, StrVerdict(ev.ret.verdict))
                            /\ last_verdict' = TRUE
                            /\ Rerun
  /\ UNCHANGED <<library_vars, report_vars>>

\* lines 353-373: Evaluate Compliance of the open-ended form
SubmitOpenEnded ==
  /\ shown.page = "open_form"
  /\ LET cid == clause_ids[clause_idx + 1]
     IN  /\ HasKey(open_ended_responses, cid) \/ Len(open_ended_responses) < MaxOpenClauses
         /\ \E open_response \in FormTexts, reply \in SessionReplies :
              LET ev == evaluate_open_text_compliance("submit", cid, Str(open_response), reply)
              IN  /\ open_ended_responses' = Put(open_ended_responses, cid, Str(open_response))
                  /\ form_submitted' = FALSE
                  /\ UNCHANGED <<clause_idx, step, evidence_analysis, previous_answers,
                                 show_ai_assistant, assessment_mode>>
                  /\ IF ev.ret.tag = "RuntimeError"
                       THEN /\ UNCHANGED <<responses, last_verdict>>
                            /\ shown' = Page("open_form", StrVerdict(""), <<>>, "", FALSE,
                                             <<>>, "RuntimeError")
                            /\ last_eval' = ev
                       ELSE /\ responses' = Put(responses, cid, StrVerdict(ev.ret.verdict))
                            /\ last_verdict' = TRUE
                            /\ Rerun
  /\ UNCHANGED <<library_vars, report_vars>>

\* a mode button that also starts the clause over
SwitchModeResetting ==
  /\ clause_idx < total_clauses
  /\ \E mode \in {"structured", "open_ended"} : assessment_mode' = mode
  /\ step' = "1"
  /\ UNCHANGED <<clause_idx, responses, last_verdict, open_ended_responses,
                 evidence_analysis, previous_answers, form_submitted, show_ai_assistant>>
  /\ Rerun
  /\ UNCHANGED <<library_vars, report_vars>>

\* lines 259-265: one of the two assessment mode buttons
SwitchMode ==
  /\ clause_idx < total_clauses
  /\ \E mode \in {"structured", "open_ended"} : assessment_mode' = mode
  /\ UNCHANGED <<clause_idx, step, responses, last_verdict, open_ended_responses,
                 evidence_analysis, previous_answers, form_submitted, show_ai_assistant>>
  /\ Rerun
  /\ UNCHANGED <<library_vars, report_vars>>

\* lines 280-285: Analyze Document on an uploaded file.  The analysis call
\* raises ("fail") or returns the parsed analysis ("dict")
AnalyzeDocument ==
  /\ clause_idx < total_clauses
  /\ UNCHANGED <<clause_idx, step, responses, last_verdict, open_ended_responses,
                 previous_answers, form_submitted, show_ai_assistant, assessment_mode>>
  /\ UNCHANGED <<library_vars, report_vars>>
  /\ LET cid == clause_ids[clause_idx + 1]
     IN  /\ HasKey(evidence_analysis, cid) \/ Len(evidence_analysis) < MaxEvidence
         /\ \E analysis \in {"fail", "dict"} :
              IF analysis = "fail"
                THEN /\ UNCHANGED evidence_analysis
                     /\ shown' = Page("aborted", StrVerdict(""), <<>>, "", FALSE, <<>>,
                                      "RuntimeError")
                     /\ last_eval' = NoEval
                ELSE /\ evidence_analysis' = Put(evidence_analysis, cid, analysis)
                     /\ Rerun

\* lines 47-49 and 77-78
ToggleAiAssistant ==
  /\ show_ai_assistant' = ~show_ai_assistant
  /\ UNCHANGED <<clause_idx, step, responses, last_verdict, open_ended_responses,
                 evidence_analysis, previous_answers, form_submitted, assessment_mode>>
  /\ Rerun
  /\ UNCHANGED <<library_vars, report_vars>>

\* next_clause offered on every clause page
NextClauseUnguarded ==
  /\ clause_idx < total_clauses
  /\ clause_idx' = clause_idx + 1
  /\ step' = "1"
  /\ last_verdict' = FALSE
  /\ form_submitted' = FALSE
  /\ UNCHANGED <<responses, open_ended_responses, evidence_analysis, previous_answers,
                 show_ai_assistant, assessment_mode>>
  /\ Rerun
  /\ UNCHANGED <<library_vars, report_vars>>

\* the callback leaving the clause index as it is
NextClauseStaying ==
  /\ shown.next_button
  /\ step' = "1"
  /\ last_verdict' = FALSE
  /\ form_submitted' = FALSE
  /\ UNCHANGED <<clause_idx, responses, open_ended_responses, evidence_analysis,
                 previous_answers, show_ai_assistant, assessment_mode>>
  /\ Rerun
  /\ UNCHANGED <<library_vars, report_vars>>

\* lines 41-45, the callback of Next Clause and View Results (lines 422-428)
NextClause ==
  /\ shown.next_button
  /\ clause_idx' = clause_idx + 1
  /\ step' = "1"
  /\ last_verdict' = FALSE
  /\ form_submitted' = FALSE
  /\ UNCHANGED <<responses, open_ended_responses, evidence_analysis, previous_answers,
                 show_ai_assistant, assessment_mode>>
  /\ Rerun
  /\ UNCHANGED <<library_vars, report_vars>>

\* the restart clearing the whole session state
RestartAssessmentClearing ==
  /\ clause_idx' = 0
  /\ step' = "1"
  /\ responses' = <<>>
  /\ last_verdict' = FALSE
  /\ open_ended_responses' = <<>>
  /\ evidence_analysis' = <<>>
  /\ previous_answers' = <<>>
  /\ form_submitted' = FALSE
  /\ show_ai_assistant' = FALSE
  /\ assessment_mode' = "structured"
  /\ Rerun
  /\ UNCHANGED <<library_vars, report_vars>>

\* lines 33-38: the keys are deleted, and init_session_state of the next
\* run sets them again
RestartAssessment ==
  /\ clause_idx' = 0
  /\ step' = "1"
  /\ responses' = <<>>
  /\ last_verdict' = FALSE
  /\ open_ended_responses' = <<>>
  /\ evidence_analysis' = <<>>
  /\ previous_answers' = <<>>
  /\ form_submitted' = FALSE
  /\ UNCHANGED <<show_ai_assistant, assessment_mode>>
  /\ Rerun
  /\ UNCHANGED <<library_vars, report_vars>>

\* any other interaction: the script runs again on the same session state
Refresh ==
  /\ UNCHANGED session_vars
  /\ Rerun
  /\ UNCHANGED <<library_vars, report_vars>>

Next ==
  \/ SubmitStructured
  \/ SubmitOpenEnded
  \/ SwitchMode
  \/ AnalyzeDocument
  \/ ToggleAiAssistant
  \/ NextClause
  \/ RestartAssessment
  \/ Refresh

Spec == Init /\ [][Next]_vars

(***************************************************************************)
(* The structured assessment alone: the user answers every question shown  *)
(* and presses the next button whenever a verdict is shown.                *)
(***************************************************************************)
NextStructured ==
  \/ StructuredSubmit
  \/ NextClause

SpecStructured ==
  /\ Init
  /\ [][NextStructured]_vars
  /\ WF_vars(StructuredSubmit)
  /\ WF_vars(NextClause)

(***************************************************************************)
(* Properties.                                                             *)
(***************************************************************************)
Done(t, op) == pc[t] = "done" /\ call[t].op = op

\* the number of steps the clause defines
NumSteps(c) == Len(Get(decision_trees, c).steps)

NoRepeat(path) == \A i, j \in 1..Len(path) : i # j => path[i] # path[j]

\* some sequence of at most fuel + 1 options leads from step s to a verdict
RECURSIVE CanReachVerdict(_, _, _)
CanReachVerdict(c, s, fuel) ==
  /\ HasStep(c, s)
  /\ LET opts == StepOf(c, s).options
     IN  \E i \in 1..Len(opts) :
           \/ ~opts[i].value.is_str
           \/ fuel > 0 /\ CanReachVerdict(c, opts[i].value.next, fuel - 1)

\* C1: in every clause, a walk from step "1" that feeds evaluate_answer any
\* option get_options returns never raises, has given at most as many answers
\* as the clause has steps (5), is terminal with a verdict payload once it has
\* given that many, never visits a step twice, and while it is not terminal
\* stands at a step from which a verdict can be reached.
C1_WalkReachesVerdict ==
  \A c \in ClauseIds :
    LET p == position[c]
    IN  /\ p.error = "none"
        /\ NumSteps(c) = 5
        /\ p.answers <= NumSteps(c)
        /\ NoRepeat(p.path)
        /\ p.terminal => p.payload.tag = "dict"
        /\ ~p.terminal => /\ p.answers < NumSteps(c)
                          /\ get_options(c, p.step).tag = "list"
                          /\ get_options(c, p.step).list # <<>>
                          /\ CanReachVerdict(c, p.step, NumSteps(c))

\* every clause's walk has ended in a verdict, that of 4.1 after five answers
C1_Witness ==
  /\ \A c \in ClauseIds : position[c].terminal
  /\ position["4.1"].answers = 5

\* C2: whenever evaluate_answer returns a step id, that id is a step of the
\* same clause, and get_question, get_options and evaluate_answer (with any
\* answer) called with it do not raise KeyError.
C2_NextStepExists ==
  \A t \in Threads :
    (Done(t, "evaluate_answer") /\ result[t].tag = "str") =>
      LET c == call[t].clause_id
          n == result[t].text
      IN  /\ n \in Range(Keys(Get(decision_trees, c).steps))
          /\ get_question(c, n).tag = "str"
          /\ get_options(c, n).tag = "list"
          /\ \A a \in AnswerInputs : evaluate_answer(c, n, a).tag # "KeyError"

\* evaluate_answer("4.3", "4", "Yes") has returned the step id "5"
C2_Witness ==
  \E t \in Threads :
    /\ Done(t, "evaluate_answer")
    /\ call[t] = [op |-> "evaluate_answer", clause_id |-> "4.3", step |-> "4", answer |-> "Yes"]
    /\ result[t] = RetStr("5")

\* C3: for an existing clause and step, evaluate_answer returns a result (a
\* step id or a verdict) exactly when the answer is one of the labels
\* get_options returns for the step; for every other string, near-matches
\* included, it raises ValueError.
C3_ExactLabelOnly ==
  \A t \in Threads :
    (Done(t, "evaluate_answer")
       /\ call[t].clause_id \in ClauseIds
       /\ call[t].step \in Range(Keys(Get(DecisionTrees, call[t].clause_id).steps))) =>
      LET labels == Range(get_options(call[t].clause_id, call[t].step).list)
      IN  /\ result[t].tag \in {"str", "dict"} <=> call[t].answer \in labels
          /\ call[t].answer \notin labels => result[t] = Raise("ValueError")

\* at step "1" of 4.1, "Yes" has been accepted and " Yes" rejected
C3_Witness ==
  \E t1, t2 \in Threads :
    /\ Done(t1, "evaluate_answer") /\ Done(t2, "evaluate_answer")
    /\ call[t1] = [op |-> "evaluate_answer", clause_id |-> "4.1", step |-> "1", answer |-> "Yes"]
    /\ call[t2] = [op |-> "evaluate_answer", clause_id |-> "4.1", step |-> "1", answer |-> " Yes"]
    /\ result[t1] = RetStr("2")
    /\ result[t2] = Raise("ValueError")

\* C4: get_question and evaluate_answer raise KeyError whenever the clause is
\* not defined or the step is not a step of the clause, whatever the answer;
\* KeyError is another outcome than ValueError and is raised in its place.
C4_NotFoundFirst ==
  \A t \in Threads :
    ((Done(t, "get_question") \/ Done(t, "evaluate_answer"))
       /\ (\/ call[t].clause_id \notin ClauseIds
           \/ call[t].step \notin Range(Keys(Get(DecisionTrees, call[t].clause_id).steps)))) =>
      /\ result[t] = Raise("KeyError")
      /\ result[t] # Raise("ValueError")

\* evaluate_answer has raised KeyError for an unknown clause with an answer
\* that is no label at all, and for an unknown step with a valid-looking one
C4_Witness ==
  \E t1, t2 \in Threads :
    /\ Done(t1, "evaluate_answer") /\ Done(t2, "evaluate_answer")
    /\ call[t1].clause_id = "4.5" /\ call[t1].answer = "yes"
    /\ call[t2].clause_id = "4.1" /\ call[t2].step = "6" /\ call[t2].answer = "Yes"
    /\ result[t1].tag = "KeyError" /\ result[t2].tag = "KeyError"

\* C5: two calls of evaluate_answer with the same (clause_id, step, answer),
\* each made after whatever calls came before it, have the same outcome: the
\* same step id, the same verdict payload or the same error.
C5_Deterministic ==
  \A t1, t2 \in Threads :
    (Done(t1, "evaluate_answer") /\ Done(t2, "evaluate_answer") /\ call[t1] = call[t2]) =>
      result[t1] = result[t2]

\* two callers have both completed evaluate_answer("4.1", "5", "Partially or Vague")
C5_Witness ==
  \E t1, t2 \in Threads :
    /\ t1 # t2
    /\ Done(t1, "evaluate_answer") /\ Done(t2, "evaluate_answer")
    /\ call[t1] = call[t2]
    /\ call[t1].clause_id = "4.1" /\ call[t1].step = "5"
    /\ call[t1].answer = "Partially or Vague"
    /\ result[t1].tag = "dict" /\ result[t2].tag = "dict"

\* what a completed call returns when it runs alone
Alone(cl) ==
  CASE cl.op = "get_question" -> get_question(cl.clause_id, cl.step)
    [] cl.op = "get_options" -> get_options(cl.clause_id, cl.step)
    [] cl.op = "evaluate_answer" -> evaluate_answer(cl.clause_id, cl.step, cl.answer)

\* C6: under every interleaving of calls to get_question, get_options and
\* evaluate_answer, decision_trees stays as it was defined and every
\* completed call has the outcome it has when run alone.
C6_GraphUnchanged ==
  /\ decision_trees = DecisionTrees
  /\ \A t \in Threads : pc[t] = "done" => result[t] = Alone(call[t])

\* a failing get_question and a succeeding evaluate_answer have both completed
C6_Witness ==
  \E t1, t2 \in Threads :
    /\ Done(t1, "get_question") /\ result[t1].tag = "KeyError"
    /\ Done(t2, "evaluate_answer") /\ result[t2].tag = "dict"

\* the first-match-wins table of the scoring fallback
FirstMatch(r, c) ==
  CASE r >= 85 /\ c >= 85 -> "Complied"
    [] ~(r >= 85 /\ c >= 85) /\ (r < 60 \/ c < 60) -> "Major NC"
    [] ~(r >= 85 /\ c >= 85) /\ ~(r < 60 \/ c < 60) /\ (r >= 70 /\ c >= 70) -> "Minor NC"
    [] OTHER -> "Opportunity for Improvement"

Scored(r, c) == verdict # "none" /\ relevance = r /\ completeness = c

C9_Original == Scored(70, 95) => verdict = "Opportunity for Improvement"

\* C9 as amended: score_to_verdict(0.7, 0.95) returns Minor NC (both scores
\* >= 0.7, the threshold being inclusive, and not both >= 0.85).
C9_Amended == Scored(70, 95) => verdict = "Minor NC"

\* score_to_verdict(0.7, 0.95) has returned
C9_Witness == Scored(70, 95)

\* C10: as the docstring of score_to_verdict says, Opportunity for
\* Improvement is returned only when one score is >= 0.7 and not both, and
\* Major NC is returned whenever neither both scores are >= 0.85, nor both
\* are >= 0.7, nor one is >= 0.7.
C10_Docstring ==
  verdict # "none" =>
    LET r == relevance
        c == completeness
        one == r >= MINOR_NC_THRESHOLD \/ c >= MINOR_NC_THRESHOLD
        both == r >= MINOR_NC_THRESHOLD /\ c >= MINOR_NC_THRESHOLD
        complied == r >= COMPLIED_THRESHOLD /\ c >= COMPLIED_THRESHOLD
    IN  /\ verdict = "Opportunity for Improvement" => (one /\ ~both)
        /\ (~complied /\ ~both /\ ~one) => verdict = "Major NC"

\* the closed set of verdicts
Verdicts == {"Complied", "Minor NC", "Opportunity for Improvement", "Major NC"}

\* C11: for every pair of scores, those below 0 and above 1 included,
\* score_to_verdict returns one of the four verdicts, and the verdict is
\* that of the comparisons made on the values as given.
C11_Total ==
  verdict # "none" =>
    /\ verdict \in Verdicts
    /\ verdict = FirstMatch(relevance, completeness)

\* score_to_verdict(1.05, -0.05) has returned Major NC
C11_Witness == Scored(105, 0 - 5) /\ verdict = "Major NC"

\* the four counters of the results page, added up
CountsSum(counts) ==
  Get(counts, "Complied") + Get(counts, "Minor NC")
    + Get(counts, "Opportunity for Improvement") + Get(counts, "Major NC")

\* C12: on the results page of an assessment answered through the clause
\* graphs, the summary counts have exactly the four verdicts as keys and the
\* four counters sum to the number of recorded verdicts (every recorded
\* verdict has incremented one counter, OFI counting as Opportunity for
\* Improvement).
C12_CountsSum ==
  (shown.page = "results" /\ open_ended_responses = <<>>) =>
    /\ Keys(shown.counts) = <<"Complied", "Minor NC", "Opportunity for Improvement", "Major NC">>
    /\ CountsSum(shown.counts) = Len(responses)

\* C13: every verdict payload evaluate_answer returns is a single verdict of
\* the closed set, or a list of exactly two elements, each a verdict of the
\* closed set or its abbreviation OFI.
C13_PayloadShape ==
  \A t \in Threads :
    (Done(t, "evaluate_answer") /\ result[t].tag = "dict") =>
      LET v == result[t].list
      IN  IF result[t].is_list
            THEN /\ Len(v) = 2
                 /\ \A i \in 1..Len(v) : v[i] \in Verdicts \cup {"OFI"}
            ELSE Len(v) = 1 /\ v[1] \in Verdicts

\* evaluate_answer("4.1", "5", "Partially or Vague") has returned the pair
\* ["OFI", "Minor NC"] and evaluate_answer("4.1", "5", "Yes") has returned
\* Complied
C13_Witness ==
  \E t1, t2 \in Threads :
    /\ Done(t1, "evaluate_answer")
    /\ call[t1] = [op |-> "evaluate_answer", clause_id |-> "4.1", step |-> "5",
                   answer |-> "Partially or Vague"]
    /\ result[t1] = RetDict(<<"OFI", "Minor NC">>, TRUE)
    /\ Done(t2, "evaluate_answer")
    /\ call[t2] = [op |-> "evaluate_answer", clause_id |-> "4.1", step |-> "5",
                   answer |-> "Yes"]
    /\ result[t2] = RetDict(<<"Complied">>, FALSE)

\* the clause the driver is at
CurrentClause == clause_ids[clause_idx + 1]

\* this step records a verdict for the current clause from the open-ended form
OpenEndedRecords ==
  /\ shown.page = "open_form"
  /\ ~HasKey(responses, CurrentClause)
  /\ HasKey(responses', CurrentClause)

\* C14: every verdict the driver records from the open-ended form, returned
\* by evaluate_open_text_compliance, is one of the four verdicts of the
\* closed set, whatever the evaluator's reply holds.
C14_RecordedInClosedSet ==
  [][OpenEndedRecords =>
       /\ ~Get(responses', CurrentClause).is_list
       /\ Get(responses', CurrentClause).list[1] \in Verdicts]_vars

\* this step makes the current clause's position terminal
BecomesTerminal ==
  /\ clause_idx < total_clauses
  /\ ~last_verdict
  /\ last_verdict'
  /\ HasKey(responses', CurrentClause)

\* this step is a submit of the structured form: one more answer is kept
AnswerSubmitted ==
  /\ shown.page = "question"
  /\ Len(previous_answers') = Len(previous_answers) + 1

\* what evaluate_answer returned to the submit of this step
SubmitResult ==
  evaluate_answer(CurrentClause, step, previous_answers'[Len(previous_answers')].value)

\* evaluate_answer returned a step id: the step is set to it and nothing else
\* of the position changes
StepIdAdvances ==
  (AnswerSubmitted /\ SubmitResult.tag = "str") =>
    /\ step' = SubmitResult.text
    /\ ~last_verdict'
    /\ responses' = responses

\* evaluate_answer returned a verdict payload to this step
PayloadReturned == AnswerSubmitted /\ SubmitResult.tag = "dict"

\* evaluate_open_text_compliance returned a verdict to the submit of this step
OpenVerdictReturned ==
  /\ shown.page = "open_form"
  /\ \E t \in FormTexts, reply \in SessionReplies :
       LET ev == evaluate_open_text_compliance("submit", CurrentClause, Str(t), reply)
       IN  /\ ev.ret.tag = "ok"
           /\ open_ended_responses' = Put(open_ended_responses, CurrentClause, Str(t))
           /\ responses' = Put(responses, CurrentClause, StrVerdict(ev.ret.verdict))

\* C15 as stated: the position becomes terminal exactly when evaluate_answer
\* returns a verdict payload; on a step id, step is set to it, last_verdict
\* stays false and nothing is recorded.
C15_Original ==
  [][/\ BecomesTerminal <=> PayloadReturned
     /\ StepIdAdvances]_vars

\* C15 as amended: the position becomes terminal exactly when evaluate_answer
\* returns a verdict payload to a structured submit or
\* evaluate_open_text_compliance returns a verdict to an open-ended submit;
\* on a step id, step is set to it, last_verdict stays false and nothing is
\* recorded.
C15_Amended ==
  [][/\ BecomesTerminal <=> (PayloadReturned \/ OpenVerdictReturned)
     /\ PayloadReturned =>
          responses' = Put(responses, CurrentClause,
                           [list |-> SubmitResult.list, is_list |-> SubmitResult.is_list])
     /\ StepIdAdvances]_vars

\* a clause is terminal with a verdict that came from the open-ended form,
\* and another one with a verdict that came from evaluate_answer
C15_Witness ==
  /\ clause_idx = 1
  /\ last_verdict
  /\ previous_answers # <<>>
  /\ HasKey(responses, "4.1") /\ Get(responses, "4.1").is_list
  /\ HasKey(responses, "4.2")
  /\ HasKey(open_ended_responses, "4.2")
  /\ step = "1"

\* the recorded verdicts of before this step are the first recorded verdicts
\* of after it, unchanged
VerdictsKept ==
  /\ Len(responses') >= Len(responses)
  /\ \A i \in 1..Len(responses) : responses'[i] = responses[i]

\* this step is a restart of the assessment
Restarted ==
  /\ responses' = <<>>
  /\ clause_idx' = 0
  /\ previous_answers' = <<>>
  /\ open_ended_responses' = <<>>
  /\ evidence_analysis' = <<>>

\* C16: a verdict once recorded for a clause is changed or removed by no
\* driver action but the restart of the assessment.
C16_VerdictImmutable == [][VerdictsKept \/ Restarted]_vars

\* two verdicts are recorded, the first from the open-ended form and the
\* second from a clause graph, after a failed open-ended submit, a document
\* analysis and a look at the assistant
C16_Witness ==
  /\ Len(responses) = 2
  /\ HasKey(open_ended_responses, "4.1")
  /\ previous_answers # <<>>
  /\ HasKey(evidence_analysis, "4.2")
  /\ show_ai_assistant
  /\ assessment_mode = "structured"
  /\ last_verdict

\* this step begins a clause's assessment: the next clause, or the first
\* one again after a restart
ClauseBegins == clause_idx' # clause_idx \/ Restarted

\* C17: a clause's position is created at step "1" with last_verdict false,
\* at session start, by next_clause and by the restart; after that step is
\* changed only by a structured submit to which evaluate_answer returned a
\* step id, and clause_idx only by next_clause and the restart; a mode
\* switch, an open-ended submit, an evidence analysis and the assistant
\* toggle leave step and clause_idx as they are.
C17_StepFrame ==
  /\ clause_idx = 0 /\ step = "1" /\ ~last_verdict
  /\ [][/\ ClauseBegins =>
            /\ step' = "1" /\ ~last_verdict'
            /\ clause_idx' = clause_idx + 1 \/ clause_idx' = 0
        /\ (step' # step /\ ~ClauseBegins) =>
            /\ AnswerSubmitted
            /\ SubmitResult.tag = "str"
            /\ step' = SubmitResult.text
        /\ ( \/ assessment_mode' # assessment_mode
             \/ show_ai_assistant' # show_ai_assistant
             \/ (evidence_analysis' # evidence_analysis /\ ~Restarted)
             \/ (open_ended_responses' # open_ended_responses /\ ~Restarted)
             \/ OpenEndedRecords ) =>
            /\ step' = step
            /\ clause_idx' = clause_idx]_vars

\* clause 4.2 stands at step "3" after two structured submits, and a mode
\* switch, a failed open-ended submit, an evidence analysis and the
\* assistant toggle have left it there
C17_Witness ==
  /\ clause_idx = 1
  /\ step = "3"
  /\ ~last_verdict
  /\ assessment_mode = "open_ended"
  /\ HasKey(open_ended_responses, "4.2")
  /\ HasKey(evidence_analysis, "4.2")
  /\ show_ai_assistant

\* the evaluator did not answer, or answered text that is no JSON object
Malformed(reply) == reply.kind \in {"api_error", "empty", "not_json", "not_object"}

BlankResponse(u) == u.is_none \/ \A i \in 1..Len(u.text) : u.text[i] = " "

\* C19: for a missing, empty or whitespace-only response,
\* evaluate_open_text_compliance returns Major NC with relevance 0.0 and
\* completeness 0.0 and the note "No response provided", and does not
\* invoke the evaluator, so that it does not raise.
C19_BlankShortCircuit ==
  (last_eval.site # "none" /\ BlankResponse(last_eval.user_response)) =>
    /\ ~last_eval.invoked
    /\ last_eval.ret.tag = "ok"
    /\ last_eval.ret.verdict = "Major NC"
    /\ last_eval.ret.scores = <<Entry("relevance", 0), Entry("completeness", 0)>>
    /\ last_eval.ret.feedback = "No response provided"

\* evaluate_open_text_compliance has been called with a response of two spaces
C19_Witness ==
  /\ last_eval.site = "call"
  /\ last_eval.user_response = Str(<<" ", " ">>)
  /\ last_eval.ret.verdict = "Major NC"

\* the score the reply gives under key k, 0 when it gives none
ScoreOf(reply, k) ==
  IF \E i \in 1..Len(reply.scores) : reply.scores[i].key = k
    THEN (CHOOSE e \in Range(reply.scores) : e.key = k).value
    ELSE 0

\* the reply carries a verdict that is not empty
SuppliesVerdict(reply) == reply.has_verdict /\ reply.verdict # ""

\* C20: a call of evaluate_open_text_compliance that reaches the evaluator
\* and returns, returns the reply's verdict unchanged when the reply
\* supplies one, whatever the reply's scores; when the reply supplies none
\* or an empty one, it returns score_to_verdict of the reply's relevance and
\* completeness, a score the reply does not give counting as 0.
C20_FallbackOnlyWithoutVerdict ==
  (last_eval.invoked /\ last_eval.ret.tag = "ok") =>
    IF SuppliesVerdict(last_eval.reply)
      THEN last_eval.ret.verdict = last_eval.reply.verdict
      ELSE last_eval.ret.verdict =
             FirstMatch(ScoreOf(last_eval.reply, "relevance"),
                        ScoreOf(last_eval.reply, "completeness"))

\* a call has returned the reply's verdict Complied although the reply's
\* scores (0.65, 0.65) give Opportunity for Improvement
C20_Witness ==
  /\ last_eval.invoked
  /\ last_eval.reply.verdict = "Complied"
  /\ last_eval.reply.scores = <<Entry("relevance", 65), Entry("completeness", 65)>>
  /\ last_eval.ret.tag = "ok"
  /\ last_eval.ret.verdict = "Complied"
  /\ FirstMatch(65, 65) = "Opportunity for Improvement"

\* the lookup table of the quick recommendations
TableLines(v) ==
  CASE v = "Complied" -> <<"Pertahankan praktik yang telah berjalan dengan baik.">>
    [] v = "Minor NC" ->
         <<"Perbaiki detail yang kurang untuk memenuhi standar penuh.",
           "Tinjau kembali dokumentasi dan lengkapi bagian yang belum memadai.">>
    [] v = "Opportunity for Improvement" ->
         <<"Pertimbangkan untuk meningkatkan proses meski sudah memenuhi syarat minimal.",
           "Tuliskan prosedur lebih rinci untuk meningkatkan konsistensi implementasi.">>
    [] v = "Major NC" ->
         <<"Segera implementasikan proses sesuai klausul yang belum ada.",
           "Susun dan dokumentasikan prosedur dasar untuk kepatuhan awal.">>

\* the primary verdict of a recorded verdict, OFI read as Opportunity for
\* Improvement
Primary(v) == IF v.list[1] = "OFI" THEN "Opportunity for Improvement" ELSE v.list[1]

\* C21: on the results page of an assessment answered through the clause
\* graphs, every line of the quick recommendations is a lookup-table line of
\* the primary verdict of some clause, and the lines of the primary verdict
\* of every clause with a compound verdict are among them.
C21_PrimaryRecommended ==
  (shown.page = "results" /\ open_ended_responses = <<>>) =>
    LET shownLines == {shown.recommendations[i] : i \in 1..Len(shown.recommendations)}
        primaryLines(i) == LET t == TableLines(Primary(responses[i].value))
                           IN  {t[j] : j \in 1..Len(t)}
    IN  /\ shownLines \subseteq UNION {primaryLines(i) : i \in 1..Len(responses)}
        /\ \A i \in 1..Len(responses) :
             responses[i].value.is_list => primaryLines(i) \subseteq shownLines

\* the analysis has another verdict than Complied
NotComplied(a) == a.verdict # [list |-> <<"Complied">>, is_list |-> FALSE]

\* C22: generate_checklist returns the one fixed message when every analysis
\* has verdict Complied (the empty list included), and otherwise one line
\* for each analysis that is not Complied, with its clause and its verdict,
\* in the order of the input, and no other line.
C22_Checklist ==
  report.done =>
    LET outstanding == SelectSeq(analysis_list, NotComplied)
    IN  IF outstanding = <<>>
          THEN report.checklist = <<AllMet>>
          ELSE /\ Len(report.checklist) = Len(outstanding)
               /\ \A i \in 1..Len(outstanding) :
                    report.checklist[i] =
                      [fixed |-> FALSE, clause |-> outstanding[i].clause,
                       verdict |-> outstanding[i].verdict]

\* the checklist of Minor NC for 4.2, Complied for 4.1 and [OFI, Minor NC]
\* for 4.1 has been made: two lines
C22_Witness ==
  /\ report.done
  /\ analysis_list =
       << Analysis("4.2", [list |-> <<"Minor NC">>, is_list |-> FALSE]),
          Analysis("4.1", [list |-> <<"Complied">>, is_list |-> FALSE]),
          Analysis("4.1", [list |-> <<"OFI", "Minor NC">>, is_list |-> TRUE]) >>
  /\ Len(report.checklist) = 2
  /\ report.checklist[1].clause = "4.2"

\* the recommendation lists of the analyses, one after the other
RECURSIVE Concatenated(_)
Concatenated(list) ==
  IF list = <<>>
    THEN <<>>
    ELSE generate_recommendations(Head(list)) \o Concatenated(Tail(list))

\* where x occurs first in l
FirstIndex(l, x) == CHOOSE i \in 1..Len(l) : l[i] = x /\ \A j \in 1..(i - 1) : l[j] # x

\* C23: the aggregated recommendations hold every text of the concatenated
\* per-clause lists, each exactly once, in the order of the first
\* occurrences in the concatenation.
C23_DedupFirstSeen ==
  report.done =>
    LET all == Concatenated(analysis_list)
        recs == report.recommendations
    IN  /\ {recs[i] : i \in 1..Len(recs)} = {all[i] : i \in 1..Len(all)}
        /\ \A i, j \in 1..Len(recs) : i # j => recs[i] # recs[j]
        /\ \A i, j \in 1..Len(recs) :
             i < j => FirstIndex(all, recs[i]) < FirstIndex(all, recs[j])

\* the report of Minor NC, Complied, Minor NC has been compiled: the two
\* Minor NC lines, then the Complied line
C23_Witness ==
  /\ report.done
  /\ Len(analysis_list) = 3
  /\ analysis_list[1].verdict = [list |-> <<"Minor NC">>, is_list |-> FALSE]
  /\ analysis_list[2].verdict = [list |-> <<"Complied">>, is_list |-> FALSE]
  /\ analysis_list[3].verdict = [list |-> <<"Minor NC">>, is_list |-> FALSE]
  /\ Len(report.recommendations) = 3
  /\ report.recommendations[3] = "Pertahankan praktik yang telah berjalan dengan baik."

\* some option of the step leads to a verdict payload
SomeOptionEnds(cid, s) ==
  \E label \in Range(get_options(cid, s).list) : evaluate_answer(cid, s, label).tag = "dict"

\* C24: what is_terminal_step gives for the current clause and step, on
\* every structured page, is true exactly when some option of the step leads
\* to a verdict payload; and a structured submit advances by the result of
\* evaluate_answer whatever is_terminal_step gave: to the step id returned,
\* or to the verdict returned.
C24_TerminalPredicate ==
  /\ [](shown.page \in {"question", "verdict"} /\ assessment_mode = "structured" =>
          shown.terminal = SomeOptionEnds(CurrentClause, step))
  /\ [][AnswerSubmitted =>
          IF SubmitResult.tag = "str"
            THEN step' = SubmitResult.text /\ ~last_verdict'
            ELSE /\ last_verdict' /\ step' = step
                 /\ Get(responses', CurrentClause).list = SubmitResult.list]_vars

\* the question of clause 4.2, step "3" is shown: is_terminal_step gave true
\* for steps "1" and "2" and the submits went on to the next step
C24_Witness ==
  /\ clause_idx = 1
  /\ step = "3"
  /\ shown.page = "question"
  /\ shown.terminal
  /\ ~last_verdict

\* the verdict of the current clause is displayed in open-ended mode
DisplayingOpenEnded ==
  /\ clause_idx < total_clauses
  /\ assessment_mode = "open_ended"
  /\ shown.page = "verdict"

\* the response stored for the current clause, "" when there is none
StoredResponse == GetOr(open_ended_responses, CurrentClause, Str(<<>>))

\* what is shown is the recorded verdict, with the scores and the feedback of
\* the call the render made
ShowsRecordedVerdict ==
  /\ last_eval.site = "display"
  /\ last_eval.clause_id = CurrentClause
  /\ last_eval.user_response = StoredResponse
  /\ last_eval.ret.tag = "ok"
  /\ shown.verdict = Get(responses, CurrentClause)
  /\ shown.scores = last_eval.ret.scores
  /\ shown.feedback = last_eval.ret.feedback

\* C25 as stated: while a verdict is displayed in open-ended mode, the
\* render has invoked the evaluator again for the stored response, and shows
\* the recorded verdict with the scores and feedback of that later call.
C25_Original ==
  DisplayingOpenEnded => (last_eval.invoked /\ ShowsRecordedVerdict)

\* C25 as amended: while a verdict is displayed in open-ended mode, the
\* render has called evaluate_open_text_compliance again for the stored
\* response, which invokes the evaluator exactly when that response is not
\* blank, and shows the recorded verdict, whatever verdict the call
\* returned, with the scores and feedback of that later call; when the
\* later call raises, the render aborts and the recorded verdict stays.
C25_Amended ==
  /\ DisplayingOpenEnded =>
       /\ ShowsRecordedVerdict
       /\ last_eval.invoked <=> ~BlankResponse(StoredResponse)
  /\ (last_eval.site = "display" /\ last_eval.ret.tag # "ok") =>
       /\ shown.page = "aborted"
       /\ last_verdict
       /\ HasKey(responses, CurrentClause)

\* Complied is recorded and displayed for clause 4.1 while the evaluator,
\* invoked again by the render, has answered Partially Compliant
C25_Witness ==
  /\ DisplayingOpenEnded
  /\ clause_idx = 0
  /\ Get(responses, "4.1") = StrVerdict("Complied")
  /\ shown.verdict = StrVerdict("Complied")
  /\ last_eval.invoked
  /\ last_eval.ret.verdict = "Partially Compliant"

\* C26: every clause before the current one has a recorded verdict,
\* responses has entries for defined clause ids only, on the results page
\* every one of the four clauses has a recorded verdict, and the driver
\* moves to the next clause only from a clause with a recorded verdict.
C26_AdvanceNeedsVerdict ==
  /\ [](/\ \A i \in 1..clause_idx : HasKey(responses, clause_ids[i])
        /\ \A i \in 1..Len(responses) : responses[i].key \in {"4.1", "4.2", "4.3", "4.4"}
        /\ (clause_idx = total_clauses) =>
             /\ shown.page = "results"
             /\ Keys(responses) = <<"4.1", "4.2", "4.3", "4.4">>)
  /\ [][clause_idx' = clause_idx + 1 =>
          (last_verdict /\ HasKey(responses, CurrentClause))]_vars

\* the results page is reached with four recorded verdicts, the one of 4.1
\* from the open-ended form
C26_Witness ==
  /\ clause_idx = 4
  /\ shown.page = "results"
  /\ Len(responses) = 4
  /\ HasKey(open_ended_responses, "4.1")

\* C27: clause_idx is between 0 and the number of clauses, and while it is
\* below that number the current step is a step of the current clause:
\* get_question and get_options return for it, evaluate_answer returns for
\* every option get_options presents, and no run of the script has ended in
\* a KeyError or a ValueError.
C27_PositionValid ==
  /\ clause_idx \in 0..total_clauses
  /\ shown.exception \notin {"KeyError", "ValueError"}
  /\ clause_idx < total_clauses =>
       /\ HasStep(CurrentClause, step)
       /\ get_question(CurrentClause, step).tag = "str"
       /\ get_options(CurrentClause, step).tag = "list"
       /\ \A label \in Range(get_options(CurrentClause, step).list) :
            evaluate_answer(CurrentClause, step, label).tag \in {"str", "dict"}

\* the driver stands at step "3" of the last clause
C27_Witness ==
  /\ clause_idx = 3
  /\ step = "3"
  /\ shown.page = "question"

\* C28: in the structured assessment, with the user answering every question
\* shown and pressing the next button whenever a verdict is shown, the
\* results page is eventually reached; no clause takes more than 5 answers
\* (20 in all), and clause_idx only goes up by one, from 0 to 4.
C28_ResultsReached ==
  /\ <>(shown.page = "results" /\ clause_idx = 4)
  /\ [](/\ Len(previous_answers) <= 20
        /\ clause_idx < total_clauses => Len(previous_answers) <= 5 * (clause_idx + 1))
  /\ [][clause_idx' # clause_idx => clause_idx' = clause_idx + 1]_vars

\* the results page is reached after 20 answers
C28_Witness ==
  /\ shown.page = "results"
  /\ clause_idx = 4
  /\ Len(previous_answers) = 20

\* the step ids in their order
StepOrder == <<"1", "2", "3", "4", "5">>

\* t is the step id after s
Follows(s, t) == \E n \in 1..Len(StepOrder) - 1 : StepOrder[n] = s /\ StepOrder[n + 1] = t

ProducesComplied(p) == p.terminal /\ p.payload.tag = "dict" /\ "Complied" \in Range(p.payload.list)

\* C29: in every clause graph a continuing option of step n leads to step
\* n+1 and only step "5" has an option giving Complied; a walk visits the
\* steps in the order "1".."5", and a walk that ended in Complied gave
\* exactly five answers, the first four of them continuing ones.
C29_CompliedOnlyAtLastStep ==
  /\ \A c \in Range(clause_ids) :
       \A s \in Range(Keys(Get(decision_trees, c).steps)) :
         \A i \in 1..Len(StepOf(c, s).options) :
           LET tg == StepOf(c, s).options[i].value
           IN  /\ tg.is_str => Follows(s, tg.next)
               /\ (~tg.is_str /\ "Complied" \in Range(tg.verdict)) => s = "5"
  /\ \A c \in ClauseIds :
       /\ Len(position[c].path) <= Len(StepOrder)
       /\ \A i \in 1..Len(position[c].path) : position[c].path[i] = StepOrder[i]
       /\ position[c].step = position[c].path[Len(position[c].path)]
       /\ ProducesComplied(position[c]) =>
            /\ position[c].answers = 5
            /\ position[c].path = StepOrder

\* a walk of clause 4.3 ended in Complied
C29_Witness ==
  /\ ProducesComplied(position["4.3"])
  /\ position["4.3"].answers = 5

\* this step takes something away from the session: no handler but the
\* restart lowers clause_idx or removes an entry of a dict
RestartStep ==
  \/ clause_idx' < clause_idx
  \/ Len(responses') < Len(responses)
  \/ Len(open_ended_responses') < Len(open_ended_responses)
  \/ Len(evidence_analysis') < Len(evidence_analysis)
  \/ Len(previous_answers') < Len(previous_answers)

\* C30: a restart leaves clause_idx 0, step "1", last_verdict false and the
\* responses, open-ended responses, evidence analyses and previous answers
\* empty, shows the first clause again, and changes neither the assessment
\* mode nor the visibility of the assistant.
C30_RestartFrame ==
  [][RestartStep =>
       /\ clause_idx' = 0
       /\ step' = "1"
       /\ ~last_verdict'
       /\ responses' = <<>>
       /\ open_ended_responses' = <<>>
       /\ evidence_analysis' = <<>>
       /\ previous_answers' = <<>>
       /\ shown'.page = (IF assessment_mode = "structured" THEN "question" ELSE "open_form")
       /\ assessment_mode' = assessment_mode
       /\ show_ai_assistant' = show_ai_assistant]_vars

\* a state whose restart clears every key the handler deletes: the second
\* clause in open-ended mode with the assistant visible, answers, verdicts,
\* an open-ended response and an evidence analysis recorded
C30_Witness ==
  /\ clause_idx = 1
  /\ step = "2"
  /\ assessment_mode = "open_ended"
  /\ show_ai_assistant
  /\ last_verdict
  /\ Len(responses) = 2
  /\ open_ended_responses # <<>>
  /\ evidence_analysis # <<>>
  /\ previous_answers # <<>>
====
